---- MODULE Spec2Model ----
(***************************************************************************)
(* Model of src/lru.go: a mutex-guarded LRU cache made of a doubly linked  *)
(* list of Node (head = most recently used, tail = least recently used)    *)
(* and a map from key to *Node.                                            *)
(*                                                                         *)
(* Pointers are node ids (Nil = 0 is the nil pointer), the Go heap is the  *)
(* function `nodes` from the ids of the reachable Node objects to their    *)
(* fields; a Node no pointer leads to any more is garbage and is dropped,  *)
(* as by Go's collector.  The nil interface value is also Nil: it can be   *)
(* passed to Put as a value, and it is what Get returns at line 39.        *)
(*                                                                         *)
(* Each thread runs Get or Put statement by statement: a call is issued    *)
(* (CallGet/CallPut), waits for the mutex (Lock), runs the body one        *)
(* helper call per step and releases the mutex on return (Unlock, the      *)
(* deferred this.mutex.Unlock()).                                          *)
(***************************************************************************)
EXTENDS Integers, Sequences, FiniteSets, TLC

\* ---------------------------------------------------------------- bounds
NumThreads == 2   \* threads calling the cache
NumKeys == 3      \* Spec: keys 1..NumKeys
NumVals == 1      \* Spec: values nil, 1..NumVals
NumBadCaps == 2   \* Spec: capacities below 1 that NewLRUCache is given: 0, -1, ...
MaxCap == 3       \* Spec: largest capacity NewLRUCache is given
NumConcKeys == 2  \* SpecConc: keys 1..NumConcKeys
NumConcVals == 1  \* SpecConc: values 1..NumConcVals
MaxConcCap == 2   \* SpecConc: capacities 1..MaxConcCap

Nil == 0
Threads == 1..NumThreads
NoThread == Nil
Keys == 1..NumKeys
Vals == Nil..NumVals
Caps == (1 - NumBadCaps)..MaxCap
ConcKeys == 1..NumConcKeys
ConcVals == 1..NumConcVals
ConcCaps == 1..MaxConcCap
NodeIds == 1..(NumKeys + NumConcKeys + NumThreads + 1)

VARIABLES
  cap, head, tail, nodeMap,  \* fields of LRUCache
  mutex,                     \* LRUCache.mutex: the thread holding it, or NoThread
  nodes,                     \* the reachable Node objects: id -> [Key, Value, Pre, Next]
  pc,                        \* per thread: the statement it is at
  call,                      \* per thread: the call it runs, [op, key, value]
  node, exit,                \* per thread: the locals `node` and `exit` of Get/Put
  ret,                       \* per thread: the value Get is returning
  touched,                   \* history: keys ever touched, most recently touched first
  snap,                      \* history, per thread: the entries when it took the mutex
  before,                    \* history, per thread: the cache when it took the mutex
  written,                   \* history: for each stored key, the value last Put under it
  serial, expect,            \* history: a cache the calls are run on one after another,
                             \* each in one piece, and what each returns there
  scen                       \* history: how much of Scenario the calls so far have matched

vars == <<cap, head, tail, nodeMap, mutex, nodes, pc, call, node, exit, ret,
          touched, snap, before, written, serial, expect, scen>>

\* ------------------------------------------------------- maps and the heap
EmptyMap == [k \in {} |-> Nil]

MapPut(m, k, n) == [x \in (DOMAIN m) \cup {k} |-> IF x = k THEN n ELSE m[x]]

MapDelete(m, k) == [x \in (DOMAIN m) \ {k} |-> m[x]]

Range(f) == {f[x] : x \in DOMAIN f}

RECURSIVE Closure(_, _)
Closure(ns, S) ==
  LET T == (S \cup {ns[n].Pre : n \in S} \cup {ns[n].Next : n \in S}) \ {Nil}
  IN IF T = S THEN S ELSE Closure(ns, T)

\* the Node objects still reachable from the cache or from the locals in `roots`
Collect(c, roots) ==
  LET live == Closure(c.nodes, ({c.head, c.tail} \cup Range(c.nodeMap) \cup roots) \ {Nil})
  IN [c EXCEPT !.nodes = [n \in live |-> c.nodes[n]]]

\* the cache as one value
This == [cap |-> cap, head |-> head, tail |-> tail, nodeMap |-> nodeMap, nodes |-> nodes]

Store(c) ==
  /\ cap' = c.cap
  /\ head' = c.head
  /\ tail' = c.tail
  /\ nodeMap' = c.nodeMap
  /\ nodes' = c.nodes

\* ------------------------------------------------------------ the helpers
NewLRUCache(c) ==
  [cap |-> c, head |-> Nil, tail |-> Nil, nodeMap |-> EmptyMap, nodes |-> [n \in {} |-> Nil]]

\* what `before` holds for a thread that is not between Lock and Unlock
NoCache == NewLRUCache(Nil)

\* NewNode: a fresh Node, both links nil; yields the cache's heap with it and its id.
\* The program never looks at an address (pointers are only compared with nil), so
\* any unused id serves: the allocator takes the id equal to the key when no
\* reachable Node has it, and the least unused id otherwise.
NewNode(c, key, value) ==
  LET unused == NodeIds \ DOMAIN c.nodes
      id == IF key \in unused THEN key
            ELSE CHOOSE n \in unused : \A m \in unused : n <= m
      fresh == [Key |-> key, Value |-> value, Pre |-> Nil, Next |-> Nil]
  IN [cache |-> [c EXCEPT !.nodes = [n \in (DOMAIN c.nodes) \cup {id} |->
                                       IF n = id THEN fresh ELSE c.nodes[n]]],
      node |-> id]

\* an addFirst that leaves the Pre link of the node it pushes as it finds it
addFirstKeepsPre(c, n) ==
  LET linked == IF c.head = Nil
                THEN [c EXCEPT !.head = n, !.tail = n]
                ELSE LET a == [c EXCEPT !.nodes[n].Next = c.head]
                         b == [a EXCEPT !.nodes[c.head].Pre = n]
                     IN [b EXCEPT !.head = n]
  IN [linked EXCEPT !.nodeMap = MapPut(linked.nodeMap, linked.nodes[n].Key, n)]

addFirst(c, n) ==
  LET cleared == [c EXCEPT !.nodes[n].Pre = Nil]
      linked == IF c.head = Nil
                THEN [cleared EXCEPT !.head = n, !.tail = n]
                ELSE LET a == [cleared EXCEPT !.nodes[n].Next = c.head]
                         b == [a EXCEPT !.nodes[c.head].Pre = n]
                     IN [b EXCEPT !.head = n]
  IN [linked EXCEPT !.nodeMap = MapPut(linked.nodeMap, linked.nodes[n].Key, n)]

\* a remove that also sets both links of the node it unlinks to nil
removeClearsLinks(c, n) ==
  LET pre == c.nodes[n].Pre
      next == c.nodes[n].Next
      a == IF pre # Nil THEN [c EXCEPT !.nodes[pre].Next = next]
                        ELSE [c EXCEPT !.head = next]
      b == IF next # Nil THEN [a EXCEPT !.nodes[next].Pre = pre]
                         ELSE [a EXCEPT !.tail = pre]
      d == [b EXCEPT !.nodes[n].Pre = Nil, !.nodes[n].Next = Nil]
  IN [d EXCEPT !.nodeMap = MapDelete(d.nodeMap, d.nodes[n].Key)]

remove(c, n) ==
  LET pre == c.nodes[n].Pre
      next == c.nodes[n].Next
      a == IF pre # Nil THEN [c EXCEPT !.nodes[pre].Next = next]
                        ELSE [c EXCEPT !.head = next]
      b == IF next # Nil THEN [a EXCEPT !.nodes[next].Pre = pre]
                         ELSE [a EXCEPT !.tail = pre]
  IN [b EXCEPT !.nodeMap = MapDelete(b.nodeMap, b.nodes[n].Key)]

\* a removeLast that unlinks the front entry instead of the back one
removeLastEvictsHead(c) == IF c.head = Nil THEN c ELSE remove(c, c.head)

\* a removeLast that unlinks the back entry and leaves its key in the map
removeLastKeepsKey(c) ==
  IF c.tail = Nil THEN c
  ELSE LET pre == c.nodes[c.tail].Pre
       IN IF pre = Nil
          THEN [c EXCEPT !.tail = Nil, !.head = Nil]
          ELSE [c EXCEPT !.nodes[pre].Next = Nil, !.tail = pre]

removeLast(c) ==
  IF c.tail = Nil THEN c
  ELSE LET m == MapDelete(c.nodeMap, c.nodes[c.tail].Key)
           pre == c.nodes[c.tail].Pre
       IN IF pre = Nil
          THEN [c EXCEPT !.nodeMap = m, !.tail = Nil, !.head = Nil]
          ELSE [c EXCEPT !.nodeMap = m, !.nodes[pre].Next = Nil, !.tail = pre]

\* a capacity test that lets one entry too many in
FullOffByOne(c) == Cardinality(DOMAIN c.nodeMap) > c.cap

\* line 57: len(this.nodeMap) >= this.cap
Full(c) == Cardinality(DOMAIN c.nodeMap) >= c.cap

\* ------------------------------------------------- reading the list back
RECURSIVE Walk(_, _, _)
Walk(ns, n, fuel) ==
  IF n = Nil \/ fuel = 0 \/ n \notin DOMAIN ns THEN <<>>
  ELSE <<n>> \o Walk(ns, ns[n].Next, fuel - 1)

\* the nodes met from head along Next (one more than there are nodes if it cycles)
Chain(c) == Walk(c.nodes, c.head, Cardinality(DOMAIN c.nodes) + 1)

\* the entries from head to tail
View(c) == [i \in 1..Len(Chain(c)) |->
              [key |-> c.nodes[Chain(c)[i]].Key, value |-> c.nodes[Chain(c)[i]].Value]]

KeysOf(s) == {s[i].key : i \in 1..Len(s)}

\* ------------------------------------------- Get and Put run in one piece
\* Get's body, lines 38-44, run without interruption: the cache after it and its result
GetSerial(c, key) ==
  IF key \notin DOMAIN c.nodeMap THEN [cache |-> c, ret |-> Nil]
  ELSE LET n == c.nodeMap[key]
           d == addFirst(remove(c, n), n)
       IN [cache |-> d, ret |-> d.nodes[n].Value]

\* Put's body, lines 55-67, run without interruption
PutSerial(c, key, value) ==
  IF key \notin DOMAIN c.nodeMap
  THEN LET d == IF Full(c) THEN Collect(removeLast(c), {}) ELSE c
           new == NewNode(d, key, value)
       IN [cache |-> addFirst(new.cache, new.node), ret |-> Nil]
  ELSE LET n == c.nodeMap[key]
           d == [c EXCEPT !.nodes[n].Value = value]
       IN [cache |-> addFirst(remove(d, n), n), ret |-> Nil]

\* the call cl run in one piece on the cache c: the cache after it and its result
SerialStep(c, cl) ==
  IF cl.op = "Get" THEN GetSerial(c, cl.key) ELSE PutSerial(c, cl.key, cl.value)

\* ------------------------------------------------------------- the calls
NoCall == [op |-> "none", key |-> Nil, value |-> Nil]

\* the scenario of the specification's section 8, for a cache of capacity 2
Scenario ==
  << [op |-> "Put", key |-> 1, value |-> 1], [op |-> "Put", key |-> 2, value |-> 2],
     [op |-> "Get", key |-> 1, value |-> Nil], [op |-> "Put", key |-> 3, value |-> 3],
     [op |-> "Get", key |-> 2, value |-> Nil], [op |-> "Put", key |-> 4, value |-> 4],
     [op |-> "Get", key |-> 1, value |-> Nil], [op |-> "Get", key |-> 3, value |-> Nil],
     [op |-> "Get", key |-> 4, value |-> Nil] >>

Off == 0 - 1

\* the order of last touches once key k is touched
Touch(s, k) == <<k>> \o SelectSeq(s, LAMBDA x : x # k)

\* the values last Put, once the call cl is completed and the keys of S are stored
LastPut(w, cl, S) ==
  [k \in ((DOMAIN w) \cup (IF cl.op = "Put" THEN {cl.key} ELSE {})) \cap S |->
     IF cl.op = "Put" /\ k = cl.key THEN cl.value ELSE w[k]]

\* the locals of the threads other than t that point to a Node
OtherLocals(t) == {node[u] : u \in Threads \ {t}}

Go(t, where) == pc' = [pc EXCEPT ![t] = where]

\* a thread calls Get(k)
CallGet(t, k) ==
  /\ pc[t] = "idle"
  /\ Go(t, "Lock")
  /\ call' = [call EXCEPT ![t] = [op |-> "Get", key |-> k, value |-> Nil]]
  /\ UNCHANGED <<cap, head, tail, nodeMap, mutex, nodes, node, exit, ret,
                 touched, snap, before, written, serial, expect, scen>>

\* a thread calls Put(k, v)
CallPut(t, k, v) ==
  /\ pc[t] = "idle"
  /\ Go(t, "Lock")
  /\ call' = [call EXCEPT ![t] = [op |-> "Put", key |-> k, value |-> v]]
  /\ UNCHANGED <<cap, head, tail, nodeMap, mutex, nodes, node, exit, ret,
                 touched, snap, before, written, serial, expect, scen>>

\* a Lock that does not wait for the mutex
LockNoWait(t) ==
  /\ pc[t] = "Lock"
  /\ mutex' = t
  /\ Go(t, "Lookup")
  /\ snap' = [snap EXCEPT ![t] = View(This)]
  /\ before' = [before EXCEPT ![t] = This]
  /\ serial' = SerialStep(serial, call[t]).cache
  /\ expect' = [expect EXCEPT ![t] = SerialStep(serial, call[t]).ret]
  /\ UNCHANGED <<cap, head, tail, nodeMap, nodes, call, node, exit, ret,
                 touched, written, scen>>

\* this.mutex.Lock(): waits until no thread holds the mutex
Lock(t) ==
  /\ pc[t] = "Lock"
  /\ mutex = NoThread
  /\ mutex' = t
  /\ Go(t, "Lookup")
  /\ snap' = [snap EXCEPT ![t] = View(This)]
  /\ before' = [before EXCEPT ![t] = This]
  /\ serial' = SerialStep(serial, call[t]).cache
  /\ expect' = [expect EXCEPT ![t] = SerialStep(serial, call[t]).ret]
  /\ UNCHANGED <<cap, head, tail, nodeMap, nodes, call, node, exit, ret,
                 touched, written, scen>>

\* a Get that returns the value found without moving the entry to the front
GetLookupNoTouch(t) ==
  /\ pc[t] = "Lookup"
  /\ call[t].op = "Get"
  /\ LET found == call[t].key \in DOMAIN nodeMap
     IN /\ exit' = [exit EXCEPT ![t] = found]
        /\ node' = [node EXCEPT ![t] = IF found THEN nodeMap[call[t].key] ELSE Nil]
        /\ ret' = [ret EXCEPT ![t] = Nil]
        /\ Go(t, IF found THEN "GetReturn" ELSE "Unlock")
  /\ UNCHANGED <<cap, head, tail, nodeMap, mutex, nodes, call,
                 touched, snap, before, written, serial, expect, scen>>

\* a Get that drops the back entry when it misses
GetLookupMissEvicts(t) ==
  /\ pc[t] = "Lookup"
  /\ call[t].op = "Get"
  /\ LET found == call[t].key \in DOMAIN nodeMap
     IN /\ exit' = [exit EXCEPT ![t] = found]
        /\ node' = [node EXCEPT ![t] = IF found THEN nodeMap[call[t].key] ELSE Nil]
        /\ ret' = [ret EXCEPT ![t] = Nil]
        /\ Store(IF found THEN This ELSE removeLast(This))
        /\ Go(t, IF found THEN "GetRemove" ELSE "Unlock")
  /\ UNCHANGED <<mutex, call, touched, snap, before, written, serial, expect, scen>>

\* a Get that returns from a miss without releasing the mutex
GetLookupLeaksMutex(t) ==
  /\ pc[t] = "Lookup"
  /\ call[t].op = "Get"
  /\ LET found == call[t].key \in DOMAIN nodeMap
     IN /\ exit' = [exit EXCEPT ![t] = found]
        /\ node' = [node EXCEPT ![t] = IF found THEN nodeMap[call[t].key] ELSE Nil]
        /\ ret' = [ret EXCEPT ![t] = Nil]
        /\ Go(t, IF found THEN "GetRemove" ELSE "idle")
  /\ UNCHANGED <<cap, head, tail, nodeMap, mutex, nodes, call,
                 touched, snap, before, written, serial, expect, scen>>

\* Get, lines 38-40: node, exit = this.nodeMap[key]; return nil when absent
GetLookup(t) ==
  /\ pc[t] = "Lookup"
  /\ call[t].op = "Get"
  /\ LET found == call[t].key \in DOMAIN nodeMap
     IN /\ exit' = [exit EXCEPT ![t] = found]
        /\ node' = [node EXCEPT ![t] = IF found THEN nodeMap[call[t].key] ELSE Nil]
        /\ ret' = [ret EXCEPT ![t] = Nil]
        /\ Go(t, IF found THEN "GetRemove" ELSE "Unlock")
  /\ UNCHANGED <<cap, head, tail, nodeMap, mutex, nodes, call,
                 touched, snap, before, written, serial, expect, scen>>

\* a Get that unlinks the back entry instead of the entry it found
GetRemoveTail(t) ==
  /\ pc[t] = "GetRemove"
  /\ Store(removeLast(This))
  /\ Go(t, "GetAddFirst")
  /\ UNCHANGED <<mutex, call, node, exit, ret,
                 touched, snap, before, written, serial, expect, scen>>

\* Get, line 42: this.remove(node)
GetRemove(t) ==
  /\ pc[t] = "GetRemove"
  /\ Store(remove(This, node[t]))
  /\ Go(t, "GetAddFirst")
  /\ UNCHANGED <<mutex, call, node, exit, ret,
                 touched, snap, before, written, serial, expect, scen>>

\* Get, line 43: this.addFirst(node)
GetAddFirst(t) ==
  /\ pc[t] = "GetAddFirst"
  /\ Store(addFirst(This, node[t]))
  /\ Go(t, "GetReturn")
  /\ UNCHANGED <<mutex, call, node, exit, ret,
                 touched, snap, before, written, serial, expect, scen>>

\* Get, line 44: return node.Value
GetReturn(t) ==
  /\ pc[t] = "GetReturn"
  /\ ret' = [ret EXCEPT ![t] = nodes[node[t]].Value]
  /\ Go(t, "Unlock")
  /\ UNCHANGED <<cap, head, tail, nodeMap, mutex, nodes, call, node, exit,
                 touched, snap, before, written, serial, expect, scen>>

\* Put, lines 55-57: node, exit = this.nodeMap[key]; when absent, the capacity test
PutLookup(t) ==
  /\ pc[t] = "Lookup"
  /\ call[t].op = "Put"
  /\ LET found == call[t].key \in DOMAIN nodeMap
     IN /\ exit' = [exit EXCEPT ![t] = found]
        /\ node' = [node EXCEPT ![t] = IF found THEN nodeMap[call[t].key] ELSE Nil]
        /\ Go(t, IF found THEN "PutSetValue"
                 ELSE IF Full(This) THEN "PutRemoveLast" ELSE "PutNewNode")
  /\ UNCHANGED <<cap, head, tail, nodeMap, mutex, nodes, call, ret,
                 touched, snap, before, written, serial, expect, scen>>

\* Put, line 58: this.removeLast(); the Node it unlinks is garbage
PutRemoveLast(t) ==
  /\ pc[t] = "PutRemoveLast"
  /\ Store(Collect(removeLast(This), {node[u] : u \in Threads}))
  /\ Go(t, "PutNewNode")
  /\ UNCHANGED <<mutex, call, node, exit, ret,
                 touched, snap, before, written, serial, expect, scen>>

\* Put, line 60: node = NewNode(key, value)
PutNewNode(t) ==
  /\ pc[t] = "PutNewNode"
  /\ NodeIds \ DOMAIN nodes # {}
  /\ LET new == NewNode(This, call[t].key, call[t].value)
     IN /\ Store(new.cache)
        /\ node' = [node EXCEPT ![t] = new.node]
  /\ Go(t, "PutAddFirst")
  /\ UNCHANGED <<mutex, call, exit, ret,
                 touched, snap, before, written, serial, expect, scen>>

\* a Put that forgets to overwrite the value of an entry it finds
PutSetValueSkipped(t) ==
  /\ pc[t] = "PutSetValue"
  /\ Go(t, "PutRemove")
  /\ UNCHANGED <<cap, head, tail, nodeMap, nodes, mutex, call, node, exit, ret,
                 touched, snap, before, written, serial, expect, scen>>

\* Put, line 65: node.Value = value
PutSetValue(t) ==
  /\ pc[t] = "PutSetValue"
  /\ nodes' = [nodes EXCEPT ![node[t]].Value = call[t].value]
  /\ Go(t, "PutRemove")
  /\ UNCHANGED <<cap, head, tail, nodeMap, mutex, call, node, exit, ret,
                 touched, snap, before, written, serial, expect, scen>>

\* a Put that unlinks the back entry instead of the entry it found
PutRemoveTail(t) ==
  /\ pc[t] = "PutRemove"
  /\ Store(removeLast(This))
  /\ Go(t, "PutAddFirst")
  /\ UNCHANGED <<mutex, call, node, exit, ret,
                 touched, snap, before, written, serial, expect, scen>>

\* Put, line 66: this.remove(node)
PutRemove(t) ==
  /\ pc[t] = "PutRemove"
  /\ Store(remove(This, node[t]))
  /\ Go(t, "PutAddFirst")
  /\ UNCHANGED <<mutex, call, node, exit, ret,
                 touched, snap, before, written, serial, expect, scen>>

\* Put, lines 61 and 67: this.addFirst(node)
PutAddFirst(t) ==
  /\ pc[t] = "PutAddFirst"
  /\ Store(addFirst(This, node[t]))
  /\ Go(t, "Unlock")
  /\ UNCHANGED <<mutex, call, node, exit, ret,
                 touched, snap, before, written, serial, expect, scen>>

\* the deferred this.mutex.Unlock() and the return to the caller; the call's
\* locals die with it, and the histories take the completed call in
Unlock(t) ==
  /\ pc[t] = "Unlock"
  /\ mutex' = NoThread
  /\ Go(t, "idle")
  /\ Store(Collect(This, OtherLocals(t)))
  /\ call' = [call EXCEPT ![t] = NoCall]
  /\ node' = [node EXCEPT ![t] = Nil]
  /\ exit' = [exit EXCEPT ![t] = FALSE]
  /\ ret' = [ret EXCEPT ![t] = Nil]
  /\ snap' = [snap EXCEPT ![t] = <<>>]
  /\ before' = [before EXCEPT ![t] = NoCache]
  /\ written' = LastPut(written, call[t], DOMAIN nodeMap)
  /\ expect' = [expect EXCEPT ![t] = Nil]
  /\ touched' = IF call[t].op = "Put" \/ exit[t] THEN Touch(touched, call[t].key)
                ELSE touched
  /\ scen' = IF scen # Off /\ scen < Len(Scenario) /\ call[t] = Scenario[scen + 1]
             THEN scen + 1 ELSE Off
  /\ UNCHANGED serial

Step(t) ==
  \/ Lock(t)
  \/ GetLookup(t)
  \/ GetRemove(t)
  \/ GetAddFirst(t)
  \/ GetReturn(t)
  \/ PutLookup(t)
  \/ PutRemoveLast(t)
  \/ PutNewNode(t)
  \/ PutSetValue(t)
  \/ PutRemove(t)
  \/ PutAddFirst(t)
  \/ Unlock(t)

\* the state NewLRUCache(c) returns, for some c of C, before any call
InitWith(C) ==
  /\ \E c \in C :
       /\ cap = NewLRUCache(c).cap
       /\ head = NewLRUCache(c).head
       /\ tail = NewLRUCache(c).tail
       /\ nodeMap = NewLRUCache(c).nodeMap
       /\ nodes = NewLRUCache(c).nodes
       /\ serial = NewLRUCache(c)
  /\ mutex = NoThread
  /\ pc = [t \in Threads |-> "idle"]
  /\ call = [t \in Threads |-> NoCall]
  /\ node = [t \in Threads |-> Nil]
  /\ exit = [t \in Threads |-> FALSE]
  /\ ret = [t \in Threads |-> Nil]
  /\ touched = <<>>
  /\ snap = [t \in Threads |-> <<>>]
  /\ before = [t \in Threads |-> NoCache]
  /\ written = EmptyMap
  /\ expect = [t \in Threads |-> Nil]
  /\ scen = 0

\* one thread calling a cache of any capacity NewLRUCache accepts
Init == InitWith(Caps)

Next ==
  \/ \E k \in Keys : CallGet(1, k)
  \/ \E k \in Keys, v \in Vals : CallPut(1, k, v)
  \/ Step(1)

Spec == Init /\ [][Next]_vars

\* all the threads calling one cache
InitConc == InitWith(ConcCaps)

NextConc ==
  \E t \in Threads :
    \/ \E k \in ConcKeys : CallGet(t, k)
    \/ \E k \in ConcKeys, v \in ConcVals : CallPut(t, k, v)
    \/ Step(t)

SpecConc == InitConc /\ [][NextConc]_vars

\* the statements of a call that do not wait: the scheduler runs each thread on
Run(t) ==
  \/ GetLookup(t)
  \/ GetRemove(t)
  \/ GetAddFirst(t)
  \/ GetReturn(t)
  \/ PutLookup(t)
  \/ PutRemoveLast(t)
  \/ PutNewNode(t)
  \/ PutSetValue(t)
  \/ PutRemove(t)
  \/ PutAddFirst(t)
  \/ Unlock(t)

\* all the threads calling one cache, every thread scheduled again and again and
\* the mutex fair: a thread that waits for it while it is freed again and again
\* gets it
\* on a cache of capacity 1, where every return path of Get and Put is taken
InitFair == InitWith({1})

SpecFair ==
  /\ InitFair /\ [][NextConc]_vars
  /\ \A t \in Threads : WF_vars(Run(t)) /\ SF_vars(Lock(t))

\* one thread calling a cache of capacity 2 with the calls the scenario is made of
ScenarioCalls == {Scenario[i] : i \in 1..Len(Scenario)}

InitScenario == InitWith({2})

NextScenario ==
  \/ \E c \in {x \in ScenarioCalls : x.op = "Get"} : CallGet(1, c.key)
  \/ \E c \in {x \in ScenarioCalls : x.op = "Put"} : CallPut(1, c.key, c.value)
  \/ Step(1)

SpecScenario == InitScenario /\ [][NextScenario]_vars

\* ------------------------------------------------------------ the claims
\* thread t has run the body of its call: what it returns is set, and the cache is
\* as the caller finds it after the call
Done(t) == pc[t] = "Unlock"

Stored == DOMAIN nodeMap

\* the place of key k in the order of last touches (1 = touched last)
Rank(k) == CHOOSE i \in 1..Len(touched) : touched[i] = k

\* among the keys of S, those no other key of S was touched before
LeastRecent(S) == {k \in S : \A j \in S : Rank(j) <= Rank(k)}

\* C1: a cache of capacity c >= 1 never stores more than c keys, and the list is as
\* long as the map is large.
CapacityInvariant ==
  cap >= 1 => /\ Cardinality(Stored) <= cap
              /\ Len(Chain(This)) = Cardinality(Stored)

\* a Put of a new key into a full cache has run
CapacityWitness ==
  \E t \in Threads :
    /\ Done(t) /\ call[t].op = "Put" /\ cap >= 1
    /\ call[t].key \notin KeysOf(snap[t])
    /\ Len(snap[t]) = cap
    /\ Cardinality(Stored) = cap

\* C2: a Put of an absent key that finds the cache full evicts exactly the stored key
\* touched longest ago (there is one such key whenever a key is stored), and every
\* other stored key survives.
EvictsLeastRecentlyTouched ==
  \A t \in Threads :
    (/\ Done(t) /\ call[t].op = "Put"
     /\ call[t].key \notin KeysOf(snap[t])
     /\ Len(snap[t]) >= cap)
    => /\ \A k \in KeysOf(snap[t]) : \E i \in 1..Len(touched) : touched[i] = k
       /\ KeysOf(snap[t]) # {} => Cardinality(LeastRecent(KeysOf(snap[t]))) = 1
       /\ Stored = (KeysOf(snap[t]) \ LeastRecent(KeysOf(snap[t]))) \cup {call[t].key}

\* a Put of a new key has evicted a key from a full cache of two or more entries
EvictionWitness ==
  \E t \in Threads :
    /\ Done(t) /\ call[t].op = "Put" /\ cap >= 2
    /\ call[t].key \notin KeysOf(snap[t])
    /\ Len(snap[t]) = cap
    /\ Stored # KeysOf(snap[t])

\* C3: right after Put(k, v), k is stored and Get(k) returns v, whether k was stored
\* before or not and whether the cache was full or not.
PutThenGetReturnsValue ==
  \A t \in Threads :
    (Done(t) /\ call[t].op = "Put")
    => /\ call[t].key \in Stored
       /\ GetSerial(This, call[t].key).ret = call[t].value

\* a Put of a new key with a proper value into a full cache has run
PutThenGetWitness ==
  \E t \in Threads :
    /\ Done(t) /\ call[t].op = "Put" /\ call[t].value # Nil
    /\ ~exit[t]
    /\ cap >= 1 /\ Len(snap[t]) = cap

\* C4: a Put(k, v2) on a stored key k leaves the stored keys and their number as they
\* were, evicts nothing even from a full cache, and a following Get(k) returns v2.
OverwriteInPlace ==
  \A t \in Threads :
    (Done(t) /\ call[t].op = "Put" /\ call[t].key \in KeysOf(snap[t]))
    => /\ GetSerial(This, call[t].key).ret = call[t].value
       /\ Stored = KeysOf(snap[t])
       /\ Cardinality(Stored) = Len(snap[t])
       /\ KeysOf(View(This)) = KeysOf(snap[t])
       /\ Len(View(This)) = Len(snap[t])

\* a Put has overwritten, with another value, the back entry of a full cache of two
OverwriteWitness ==
  \E t \in Threads :
    /\ Done(t) /\ call[t].op = "Put" /\ cap = 2 /\ Len(snap[t]) = 2
    /\ snap[t][2].key = call[t].key
    /\ snap[t][2].value # call[t].value

\* C5: Get(k) reports a miss (returns nil) exactly when k is not stored, and a hit
\* when it is.
GetReportsHitIffStored ==
  \A t \in Threads :
    (Done(t) /\ call[t].op = "Get")
    => ((ret[t] = Nil) <=> (call[t].key \notin KeysOf(snap[t])))

\* C6: whatever value v is put, what Get(k) returns after Put(k, v) differs from what
\* Get returns for an absent key.
MissDistinguishable ==
  \A t \in Threads :
    (Done(t) /\ call[t].op = "Put")
    => GetSerial(This, call[t].key).ret # GetSerial(NewLRUCache(cap), call[t].key).ret

\* C7: no cache of capacity below 1 ever takes a call.
ConstructionRejectsBadCapacity ==
  (\E t \in Threads : pc[t] # "idle") => cap >= 1

\* what a call did: whether it found its key, what it returns, which keys it evicted
Outcome(t) ==
  [hit |-> exit[t], ret |-> ret[t], evicted |-> KeysOf(snap[t]) \ Stored]

ScenarioExpected ==
  << [hit |-> FALSE, ret |-> Nil, evicted |-> {}],
     [hit |-> FALSE, ret |-> Nil, evicted |-> {}],
     [hit |-> TRUE, ret |-> 1, evicted |-> {}],
     [hit |-> FALSE, ret |-> Nil, evicted |-> {2}],
     [hit |-> FALSE, ret |-> Nil, evicted |-> {}],
     [hit |-> FALSE, ret |-> Nil, evicted |-> {1}],
     [hit |-> FALSE, ret |-> Nil, evicted |-> {}],
     [hit |-> TRUE, ret |-> 3, evicted |-> {}],
     [hit |-> TRUE, ret |-> 4, evicted |-> {}] >>

\* C8: on a fresh cache of capacity 2, as long as the calls made are those of the
\* scenario in its order, each has the scenario's outcome: Get(1) hits with 1,
\* Put(3,3) evicts 2, Get(2) misses, Put(4,4) evicts 1, Get(1) misses, Get(3) hits
\* with 3, Get(4) hits with 4.
ScenarioOutcome ==
  \A t \in Threads :
    (/\ Done(t) /\ cap = 2
     /\ scen # Off /\ scen < Len(Scenario)
     /\ call[t] = Scenario[scen + 1])
    => Outcome(t) = ScenarioExpected[scen + 1]

\* the last call of the scenario has run after all the others
ScenarioWitness ==
  \E t \in Threads :
    /\ Done(t) /\ cap = 2
    /\ scen = Len(Scenario) - 1
    /\ call[t] = Scenario[Len(Scenario)]

\* the list is a sound chain holding each key of the map once
WellLinked(c) ==
  LET ch == Chain(c)
  IN /\ (c.head = Nil) <=> (c.tail = Nil)
     /\ Len(ch) = Cardinality(DOMAIN c.nodeMap)
     /\ \A i, j \in 1..Len(ch) : c.nodes[ch[i]].Key = c.nodes[ch[j]].Key => i = j
     /\ \A i \in 1..Len(ch) :
          /\ c.nodes[ch[i]].Pre = (IF i = 1 THEN Nil ELSE ch[i - 1])
          /\ c.nodes[ch[i]].Key \in DOMAIN c.nodeMap
          /\ c.nodeMap[c.nodes[ch[i]].Key] = ch[i]
     /\ ch # <<>> => ch[Len(ch)] = c.tail /\ c.nodes[c.tail].Next = Nil

\* C9: with several threads calling, every call returns what it returns when the
\* calls are run one after another in the order they took the mutex (an order
\* within each call's duration), and whenever the mutex is free the cache holds the
\* entries, values and order of that sequential run, no key twice, links sound.
Linearizable ==
  /\ \A t \in Threads : Done(t) => ret[t] = expect[t]
  /\ mutex = NoThread => View(This) = View(serial) /\ WellLinked(This)

\* a Get has hit while another thread's Put waits for the mutex
LinearizableWitness ==
  \E t, u \in Threads :
    /\ t # u
    /\ Done(t) /\ call[t].op = "Get" /\ exit[t]
    /\ pc[u] = "Lock" /\ call[u].op = "Put"

\* the statements between Lock and Unlock: all those that read or write head, tail,
\* nodeMap or a Node
Critical ==
  {"Lookup", "GetRemove", "GetAddFirst", "GetReturn", "PutRemoveLast", "PutNewNode",
   "PutSetValue", "PutRemove", "PutAddFirst", "Unlock"}

\* C10: at most one thread is between Lock and Unlock, and a thread at any statement
\* of Get, Put, addFirst, remove or removeLast that touches the cache holds the mutex.
MutualExclusion ==
  /\ Cardinality({t \in Threads : pc[t] \in Critical}) <= 1
  /\ \A t \in Threads : pc[t] \in Critical => mutex = t

\* a thread is unlinking an entry while another one waits for the mutex
MutualExclusionWitness ==
  \E t, u \in Threads :
    /\ t # u
    /\ pc[t] \in {"GetRemove", "PutRemove", "PutRemoveLast"}
    /\ mutex = t
    /\ pc[u] = "Lock"

\* C11: every call that is started completes, whatever the other threads do, and
\* when it has returned (by whichever path: Get miss, Get hit, Put of a new key with
\* or without eviction, Put overwrite) it does not hold the mutex: the mutex is free
\* whenever no thread is between Lock and Unlock.
CallsComplete ==
  /\ \A t \in Threads : (pc[t] # "idle") ~> (pc[t] = "idle")
  /\ []((\A t \in Threads : pc[t] \notin Critical) => mutex = NoThread)

\* a thread waits for the mutex while a Put that evicts holds it
CallsCompleteWitness ==
  \E t, u \in Threads :
    /\ t # u
    /\ pc[t] = "Lock"
    /\ pc[u] = "PutRemoveLast" /\ mutex = u

\* C12: whenever no call holds the mutex, the map and the list agree: the keys of
\* the map are the keys of the nodes met from head, no key is on two list nodes,
\* and the map sends each key to the list node that carries it.
MapListAgree ==
  mutex = NoThread =>
    LET ch == Chain(This)
    IN /\ {nodes[ch[i]].Key : i \in 1..Len(ch)} = DOMAIN nodeMap
       /\ \A i, j \in 1..Len(ch) : nodes[ch[i]].Key = nodes[ch[j]].Key => i = j
       /\ \A k \in DOMAIN nodeMap :
            /\ \E i \in 1..Len(ch) : ch[i] = nodeMap[k]
            /\ nodes[nodeMap[k]].Key = k

\* the mutex is free, two keys or more are stored and a key touched earlier is gone
MapListAgreeWitness ==
  /\ mutex = NoThread
  /\ Cardinality(Stored) >= 2
  /\ \E i \in 1..Len(touched) : touched[i] \notin Stored

\* C13: after every call the list is a sound doubly linked chain: head is nil
\* exactly when tail is nil and exactly when nothing is stored, head has no Pre and
\* tail no Next, the Pre of every node's Next is the node itself, and the walk
\* from head along Next ends at tail after as many nodes as the map has keys,
\* meeting no node twice.
ChainWellFormed ==
  (mutex = NoThread \/ \E t \in Threads : Done(t)) =>
    LET ch == Chain(This)
    IN /\ (head = Nil) <=> (tail = Nil)
       /\ (head = Nil) <=> (DOMAIN nodeMap = {})
       /\ head # Nil => nodes[head].Pre = Nil
       /\ tail # Nil => nodes[tail].Next = Nil
       /\ \A i \in 1..Len(ch) :
            nodes[ch[i]].Next # Nil => nodes[nodes[ch[i]].Next].Pre = ch[i]
       /\ Len(ch) = Cardinality(DOMAIN nodeMap)
       /\ ch # <<>> => ch[Len(ch)] = tail
       /\ \A i, j \in 1..Len(ch) : ch[i] = ch[j] => i = j

\* a call has found the sole entry, unlinked it and pushed its node into the
\* emptied list
ChainWellFormedWitness ==
  \E t \in Threads :
    /\ Done(t) /\ exit[t]
    /\ Len(snap[t]) = 1
    /\ head = node[t] /\ tail = node[t]

\* the order of last touches once the call of thread t is completed
TouchedAfter(t) ==
  IF call[t].op = "Put" \/ exit[t] THEN Touch(touched, call[t].key) ELSE touched

\* the keys of the list from head to tail
KeyOrder == [i \in 1..Len(View(This)) |-> View(This)[i].key]

\* C14: the list from head to tail is the stored keys from the one touched last to
\* the one touched longest ago, a touch being a Put of the key or a Get that finds
\* it; the key of a Put or of a Get hit is at head when the call is done.
RecencyOrder ==
  /\ mutex = NoThread => KeyOrder = SelectSeq(touched, LAMBDA k : k \in Stored)
  /\ \A t \in Threads :
       Done(t) => /\ KeyOrder = SelectSeq(TouchedAfter(t), LAMBDA k : k \in Stored)
                  /\ (call[t].op = "Put" \/ exit[t]) =>
                       head # Nil /\ nodes[head].Key = call[t].key

\* a Get has found the back entry of two and a key touched earlier is gone
RecencyOrderWitness ==
  \E t \in Threads :
    /\ Done(t) /\ call[t].op = "Get" /\ exit[t]
    /\ Len(snap[t]) = 2
    /\ snap[t][2].key = call[t].key
    /\ \E i \in 1..Len(touched) : touched[i] \notin Stored

\* C15: a Get that finds key k returns the value stored under k, and the list after
\* it is the entry of k followed by the other entries in the order and with the
\* values they had: no value changes, no key comes or goes.
GetHitFrame ==
  \A t \in Threads :
    (Done(t) /\ call[t].op = "Get" /\ exit[t])
    => \E i \in 1..Len(snap[t]) :
         /\ snap[t][i].key = call[t].key
         /\ ret[t] = snap[t][i].value
         /\ View(This) = <<snap[t][i]>> \o
                            SelectSeq(snap[t], LAMBDA e : e.key # call[t].key)
         /\ Stored = KeysOf(snap[t])
         /\ Cardinality(Stored) = Len(snap[t])

\* a Get has found the middle entry of three, whose values are not all the same
GetHitFrameWitness ==
  \E t \in Threads :
    /\ Done(t) /\ call[t].op = "Get" /\ exit[t]
    /\ Len(snap[t]) = 3
    /\ snap[t][2].key = call[t].key
    /\ snap[t][1].value # snap[t][3].value

\* the keys stored when the call of thread t took the mutex and gone since
Gone(t) == KeysOf(snap[t]) \ Stored

\* a Put of a key that was not stored when it took the mutex
PutAbsent(t) == call[t].op = "Put" /\ call[t].key \notin KeysOf(snap[t])

\* C16: a key leaves the cache only through a Put of an absent key that found as
\* many entries as the capacity, and that Put removes the back entry and no other;
\* a Put of an absent key that found fewer entries removes nothing, and neither
\* does a Get or a Put of a stored key.
EvictionOnlyWhenFull ==
  \A t \in Threads :
    Done(t) =>
      /\ Gone(t) # {} => PutAbsent(t) /\ Len(snap[t]) = cap
      /\ (PutAbsent(t) /\ Len(snap[t]) = cap /\ Len(snap[t]) > 0)
           => Gone(t) = {snap[t][Len(snap[t])].key}
      /\ (PutAbsent(t) /\ Len(snap[t]) < cap) => Gone(t) = {}
      /\ ~PutAbsent(t) => Gone(t) = {}

\* C17: a Get that misses leaves the cache as it found it: head, tail, the map,
\* every node with its value and links, hence the entries and their order, and
\* it is no touch.
GetMissFrame ==
  \A t \in Threads :
    (Done(t) /\ call[t].op = "Get" /\ ~exit[t])
    => /\ This = before[t]
       /\ View(This) = snap[t]
       /\ TouchedAfter(t) = touched

\* a Get has missed on a cache of two or more entries
GetMissFrameWitness ==
  \E t \in Threads :
    /\ Done(t) /\ call[t].op = "Get" /\ ~exit[t]
    /\ call[t].key \notin KeysOf(snap[t])
    /\ Len(snap[t]) >= 2

\* C18: the value stored under a key, which is what Get returns for it, is the
\* value of the latest Put of that key; a Get, or a Put of another key, leaves the
\* value of every key that stays stored as it was.
ValueIsLastPut ==
  /\ mutex = NoThread =>
       \A k \in Stored : /\ k \in DOMAIN written
                         /\ nodes[nodeMap[k]].Value = written[k]
                         /\ GetSerial(This, k).ret = written[k]
  /\ \A t \in Threads :
       Done(t) =>
         /\ \A k \in Stored :
              /\ k \in DOMAIN LastPut(written, call[t], Stored)
              /\ nodes[nodeMap[k]].Value = LastPut(written, call[t], Stored)[k]
         /\ \A i \in 1..Len(snap[t]) :
              (/\ snap[t][i].key \in Stored
               /\ (call[t].op = "Get" \/ call[t].key # snap[t][i].key))
              => nodes[nodeMap[snap[t][i].key]].Value = snap[t][i].value

\* a Put has given a stored key another value while a second key is stored with
\* the value the first one had
ValueIsLastPutWitness ==
  \E t \in Threads :
    /\ Done(t) /\ call[t].op = "Put" /\ exit[t]
    /\ \E i, j \in 1..Len(snap[t]) :
         /\ i # j
         /\ snap[t][i].key = call[t].key
         /\ snap[t][i].value # call[t].value
         /\ snap[t][j].value = snap[t][i].value

\* C19: no call lowers the number of stored keys: a Put of an absent key that found
\* fewer entries than the capacity raises it by one, every other call leaves it.
CountNeverDecreases ==
  \A t \in Threads :
    Done(t) =>
      /\ Cardinality(Stored) >= Len(snap[t])
      /\ Cardinality(Stored) =
           IF PutAbsent(t) /\ Len(snap[t]) < cap THEN Len(snap[t]) + 1
           ELSE Len(snap[t])

\* thread t has unlinked the node it found and not yet pushed it to the front
Unlinked(t) == pc[t] = "GetAddFirst" \/ (pc[t] = "PutAddFirst" /\ exit[t])

\* C20 as stated: once remove has unlinked the node, the list is one shorter and
\* both links of the node are nil before it is pushed to the front.
RemoveClearsNodeLinks ==
  \A t \in Threads :
    Unlinked(t) => /\ Len(Chain(This)) = Len(snap[t]) - 1
                   /\ nodes[node[t]].Pre = Nil
                   /\ nodes[node[t]].Next = Nil

\* C20, amended: once remove has unlinked the node, the list is one shorter and
\* neither head, tail nor a node of the list points to the node, while the node's
\* own Pre and Next still hold what they held in the list; the addFirst that
\* follows sets its Pre to nil and its Next to the former front (nil when the list
\* was emptied, for then the node was the sole entry and had no Next).
RemoveKeepsNodeLinks ==
  \A t \in Threads :
    /\ Unlinked(t) =>
         LET ch == Chain(This)
         IN /\ Len(ch) = Len(snap[t]) - 1
            /\ head # node[t] /\ tail # node[t]
            /\ \A i \in 1..Len(ch) : /\ ch[i] # node[t]
                                      /\ nodes[ch[i]].Pre # node[t]
                                      /\ nodes[ch[i]].Next # node[t]
            /\ nodes[node[t]].Pre = before[t].nodes[node[t]].Pre
            /\ nodes[node[t]].Next = before[t].nodes[node[t]].Next
    /\ (Done(t) /\ exit[t]) =>
         LET ch == Chain(This)
         IN /\ ch[1] = node[t]
            /\ nodes[node[t]].Pre = Nil
            /\ nodes[node[t]].Next = (IF Len(ch) = 1 THEN Nil ELSE ch[2])

\* the middle node of three is unlinked and still holds both its old links
RemoveKeepsNodeLinksWitness ==
  \E t \in Threads :
    /\ pc[t] = "GetAddFirst"
    /\ Len(snap[t]) = 3
    /\ nodes[node[t]].Pre # Nil
    /\ nodes[node[t]].Next # Nil

====
